---------------------------- MODULE Spec2Model ----------------------------
(***************************************************************************)
(* A model of the Windows backend of findshlibs (src/windows/mod.rs):      *)
(*                                                                         *)
(*   - SharedLibrary::each, the module enumerator, as a state machine with *)
(*     one action per OS call of the loop body (SpecEach);                 *)
(*   - the PE header accessors (dos_header, nt_headers, codeview_record70, *)
(*     id, debug_id, debug_name, segments, virtual_memory_bias) as         *)
(*     operators over a byte-addressed image of the module's memory, each  *)
(*     returning its value together with the ordered log of the reads and  *)
(*     signature checks it performs (SpecPE);                              *)
(*   - Segment::name / is_code over the section headers (SpecName).        *)
(***************************************************************************)
EXTENDS Integers, Sequences, FiniteSets, TLC

\* ------------------------------------------------------------------------
\* Bounds of the model
\* ------------------------------------------------------------------------

\* The largest number of modules resident in the process.
MaxModules == 3

\* The largest NumberOfSections an image of SpecPE declares.
MaxSections == 2

\* ------------------------------------------------------------------------
\* Program constants (winapi values used by the source)
\* ------------------------------------------------------------------------

NULL == 0

\* size_of::<HMODULE>() on the 64-bit target
SizeOfHMODULE == 8

\* size_of::<MEMORY_BASIC_INFORMATION>() on the 64-bit target
SizeOfMBI == 48

MEM_COMMIT == 4096

MEM_RESERVE == 8192

MEM_FREE == 65536

\* ------------------------------------------------------------------------
\* State
\* ------------------------------------------------------------------------

VARIABLES
    \* --- the process (the environment of each) ---
    numModules,     \* number of modules resident in the process
    refcount,       \* the loader's reference count of each module
    \* --- SharedLibrary::each: locals of the function ---
    pc,             \* position in each()
    modules_size,   \* byte count reported by EnumProcessModules
    module_count,   \* modules_size / size_of::<HMODULE>()
    modules,        \* the vector of module handles
    idx,            \* position of the for loop in modules (1-based)
    \* --- SharedLibrary::each: locals of one loop iteration ---
    module_path,    \* the module whose path was retrieved (0: none)
    module_info,    \* MODULEINFO, zeroed until filled
    handle_lock,    \* result of LoadLibraryExW (NULL on failure)
    vmem_info,      \* result of VirtualQuery: [ret, State]
    should_break,
    \* --- history of the run (observations, not program state) ---
    os,             \* per module: the outcome of each OS call made for it
    pins,           \* per module: successful LoadLibraryExW calls
    releases,       \* per module: successful FreeLibrary calls
    called,         \* the modules the callback was invoked for, in order
    brokeAt,        \* number of the invocation that returned Break (0: none)
    enumFailed,     \* "none", "size" or "list"
    \* --- the PE accessors ---
    mem,            \* the module's memory, one byte per offset from the base
    call,           \* the accessor called last ("none" before any call)
    ret,            \* what it returned
    log             \* the reads and checks it performed, in order

procVars == <<numModules, refcount>>
fnVars   == <<pc, modules_size, module_count, modules, idx>>
iterVars == <<module_path, module_info, handle_lock, vmem_info, should_break>>
histVars == <<os, pins, releases, called, brokeAt, enumFailed>>
eachVars == <<procVars, fnVars, iterVars, histVars>>
peVars   == <<mem, call, ret, log>>
vars     == <<eachVars, peVars>>

\* ------------------------------------------------------------------------
\* SharedLibrary::each
\* ------------------------------------------------------------------------

Handles == 1 .. MaxModules

\* The base address the loader mapped module h at (never NULL).
BaseOf(h) == h * 65536

\* mem::zeroed() for MODULEINFO
ZeroedInfo == [lpBaseOfDll |-> NULL]

\* mem::zeroed() for MEMORY_BASIC_INFORMATION, before VirtualQuery ran
ZeroedVmem == [ret |-> 0, State |-> 0]

NoOs == [path |-> "none", info |-> "none", pin |-> "none", vq |-> "none"]

\* Bitwise NOT of an i32 (Rust's `!` on an integer), in two's complement.
Not32(x) == -x - 1

\* What GetModuleInformation returns: FALSE (0) on failure, TRUE (1) on success.
InfoRets == {0, 1}

\* What VirtualQuery can report for an address.  The null page is never
\* committed memory of a user process: the query for address NULL fails or
\* reports a free region.
RegionResults(addr) ==
    IF addr = NULL
    THEN {[ret |-> 0, State |-> 0], [ret |-> SizeOfMBI, State |-> MEM_FREE]}
    ELSE {[ret |-> 0, State |-> 0],
          [ret |-> SizeOfMBI, State |-> MEM_COMMIT],
          [ret |-> SizeOfMBI, State |-> MEM_RESERVE]}

\* The candidate of the current loop iteration.
cur == modules[idx]

FreshIteration ==
    /\ module_path' = 0
    /\ module_info' = ZeroedInfo
    /\ handle_lock' = NULL
    /\ vmem_info' = ZeroedVmem
    /\ should_break' = FALSE

\* Vec::truncate: the first n elements, the whole vector when it has fewer.
Truncate(v, n) == IF n >= Len(v) THEN v ELSE SubSeq(v, 1, n)

\* `continue`: on to the next element of modules.iter_mut()
Continue ==
    /\ idx' = idx + 1
    /\ pc' = "loop"
    /\ FreshIteration

\* lines 256-263: the size query; module_count is computed from its answer.
\* The set of resident modules does not change while each() runs, so both
\* EnumProcessModules calls report the same size.
EnumSize ==
    /\ pc = "start"
    /\ \E ok \in BOOLEAN :
         IF ~ok
         THEN /\ pc' = "returned"
              /\ enumFailed' = "size"
              /\ UNCHANGED <<modules_size, module_count>>
         ELSE /\ modules_size' = numModules * SizeOfHMODULE
              /\ module_count' = (numModules * SizeOfHMODULE) \div SizeOfHMODULE
              /\ pc' = "enum"
              /\ UNCHANGED enumFailed
    /\ UNCHANGED <<procVars, modules, idx, iterVars, os, pins, releases,
                   called, brokeAt, peVars>>

\* EnumList with the result of the second EnumProcessModules call ignored.
EnumList_IgnoresFailure ==
    /\ pc = "enum"
    /\ \E ok \in BOOLEAN :
         /\ enumFailed' = IF ok THEN enumFailed ELSE "list"
         /\ modules' = Truncate([i \in 1 .. module_count |-> i],
                                modules_size \div SizeOfHMODULE)
         /\ idx' = 1
         /\ pc' = "loop"
    /\ UNCHANGED <<procVars, modules_size, module_count, iterVars, os, pins,
                   releases, called, brokeAt, peVars>>

\* lines 264-272: the retrieval into a vector of module_count handles, then
\* the truncation to the count the second call reported
EnumList ==
    /\ pc = "enum"
    /\ \E ok \in BOOLEAN :
         IF ~ok
         THEN /\ pc' = "returned"
              /\ enumFailed' = "list"
              /\ UNCHANGED <<modules, idx>>
         ELSE /\ modules' = Truncate([i \in 1 .. module_count |-> i],
                                     modules_size \div SizeOfHMODULE)
              /\ idx' = 1
              /\ pc' = "loop"
              /\ UNCHANGED enumFailed
    /\ UNCHANGED <<procVars, modules_size, module_count, iterVars, os, pins,
                   releases, called, brokeAt, peVars>>

\* line 274: the iterator is exhausted, each() returns
LoopEnd ==
    /\ pc = "loop"
    /\ idx > Len(modules)
    /\ pc' = "returned"
    /\ UNCHANGED <<procVars, modules_size, module_count, modules, idx,
                   iterVars, histVars, peVars>>

\* lines 274-285: the next candidate and its file path
GetModuleFileName ==
    /\ pc = "loop"
    /\ idx <= Len(modules)
    /\ \E ok \in BOOLEAN :
         /\ os' = [os EXCEPT ![cur].path = IF ok THEN "ok" ELSE "failed"]
         /\ IF ~ok
            THEN Continue
            ELSE /\ module_path' = cur
                 /\ pc' = "info"
                 /\ UNCHANGED <<idx, module_info, handle_lock, vmem_info,
                                should_break>>
    /\ UNCHANGED <<procVars, modules_size, module_count, modules, pins,
                   releases, called, brokeAt, enumFailed, peVars>>

\* lines 287-296: `if !GetModuleInformation(..) == 0 { continue; }`
GetModuleInfo ==
    /\ pc = "info"
    /\ \E r \in InfoRets :
         /\ os' = [os EXCEPT ![cur].info = IF r = 0 THEN "failed" ELSE "ok"]
         /\ IF Not32(r) = 0
            THEN Continue
            ELSE /\ module_info' = IF r = 0 THEN ZeroedInfo
                                   ELSE [lpBaseOfDll |-> BaseOf(cur)]
                 /\ pc' = "pin"
                 /\ UNCHANGED <<idx, module_path, handle_lock, vmem_info,
                                should_break>>
    /\ UNCHANGED <<procVars, modules_size, module_count, modules, pins,
                   releases, called, brokeAt, enumFailed, peVars>>

\* lines 298-306: LoadLibraryExW on the module's path
LoadLibrary ==
    /\ pc = "pin"
    /\ \E ok \in BOOLEAN :
         /\ os' = [os EXCEPT ![cur].pin = IF ok THEN "ok" ELSE "failed"]
         /\ handle_lock' = IF ok THEN module_path ELSE NULL
         /\ refcount' = IF ok THEN [refcount EXCEPT ![module_path] = @ + 1]
                        ELSE refcount
         /\ pins' = IF ok THEN [pins EXCEPT ![module_path] = @ + 1] ELSE pins
    /\ pc' = "query"
    /\ UNCHANGED <<numModules, modules_size, module_count, modules, idx,
                   module_path, module_info, vmem_info, should_break,
                   releases, called, brokeAt, enumFailed, peVars>>

\* VirtualQueryStep without the `vmem_info.State == MEM_COMMIT` test.
VirtualQueryStep_NoCommitTest ==
    /\ pc = "query"
    /\ \E q \in RegionResults(module_info.lpBaseOfDll) :
         /\ vmem_info' = q
         /\ os' = [os EXCEPT ![cur].vq =
                      IF q.ret # SizeOfMBI THEN "failed"
                      ELSE IF q.State = MEM_COMMIT THEN "commit"
                      ELSE "nocommit"]
         /\ IF q.ret = SizeOfMBI
            THEN /\ called' = Append(called, cur)
                 /\ pc' = "callback"
            ELSE /\ pc' = "free"
                 /\ UNCHANGED called
    /\ UNCHANGED <<procVars, modules_size, module_count, modules, idx,
                   module_path, module_info, handle_lock, should_break,
                   pins, releases, brokeAt, enumFailed, peVars>>

\* lines 308-321: VirtualQuery at module_info.lpBaseOfDll; with the whole
\* structure written and the region committed the callback is entered
VirtualQueryStep ==
    /\ pc = "query"
    /\ \E q \in RegionResults(module_info.lpBaseOfDll) :
         /\ vmem_info' = q
         /\ os' = [os EXCEPT ![cur].vq =
                      IF q.ret # SizeOfMBI THEN "failed"
                      ELSE IF q.State = MEM_COMMIT THEN "commit"
                      ELSE "nocommit"]
         /\ IF q.ret = SizeOfMBI /\ q.State = MEM_COMMIT
            THEN /\ called' = Append(called, cur)
                 /\ pc' = "callback"
            ELSE /\ pc' = "free"
                 /\ UNCHANGED called
    /\ UNCHANGED <<procVars, modules_size, module_count, modules, idx,
                   module_path, module_info, handle_lock, should_break,
                   pins, releases, brokeAt, enumFailed, peVars>>

\* CallbackReturn with the Break arm leaving should_break unset.
CallbackReturn_IgnoresBreak ==
    /\ pc = "callback"
    /\ \E c \in {"Continue", "Break"} :
         /\ should_break' = FALSE
         /\ brokeAt' = IF c = "Break" THEN Len(called) ELSE brokeAt
    /\ pc' = "free"
    /\ UNCHANGED <<procVars, modules_size, module_count, modules, idx,
                   module_path, module_info, handle_lock, vmem_info,
                   os, pins, releases, called, enumFailed, peVars>>

\* lines 321-324: f(&shlib) returns an IterationControl
CallbackReturn ==
    /\ pc = "callback"
    /\ \E c \in {"Continue", "Break"} :
         /\ should_break' = (c = "Break")
         /\ brokeAt' = IF c = "Break" THEN Len(called) ELSE brokeAt
    /\ pc' = "free"
    /\ UNCHANGED <<procVars, modules_size, module_count, modules, idx,
                   module_path, module_info, handle_lock, vmem_info,
                   os, pins, releases, called, enumFailed, peVars>>

\* line 321: f(&shlib) panics; each() unwinds without running the rest
CallbackPanic ==
    /\ pc = "callback"
    /\ pc' = "panicked"
    /\ UNCHANGED <<procVars, modules_size, module_count, modules, idx,
                   iterVars, histVars, peVars>>

\* FreeLibraryStep with the break test ahead of FreeLibrary.
FreeLibraryStep_BreakFirst ==
    /\ pc = "free"
    /\ IF should_break
       THEN /\ pc' = "returned"
            /\ UNCHANGED <<idx, iterVars, refcount, releases>>
       ELSE /\ IF handle_lock # NULL
               THEN /\ refcount' = [refcount EXCEPT ![handle_lock] = @ - 1]
                    /\ releases' = [releases EXCEPT ![handle_lock] = @ + 1]
               ELSE UNCHANGED <<refcount, releases>>
            /\ Continue
    /\ UNCHANGED <<numModules, modules_size, module_count, modules, os, pins,
                   called, brokeAt, enumFailed, peVars>>

\* lines 328-332: FreeLibrary(handle_lock), then the break test
FreeLibraryStep ==
    /\ pc = "free"
    /\ IF handle_lock # NULL
       THEN /\ refcount' = [refcount EXCEPT ![handle_lock] = @ - 1]
            /\ releases' = [releases EXCEPT ![handle_lock] = @ + 1]
       ELSE UNCHANGED <<refcount, releases>>
    /\ IF should_break
       THEN /\ pc' = "returned"
            /\ UNCHANGED <<idx, iterVars>>
       ELSE Continue
    /\ UNCHANGED <<numModules, modules_size, module_count, modules, os, pins,
                   called, brokeAt, enumFailed, peVars>>

InitEach ==
    /\ numModules \in 1 .. MaxModules
    /\ refcount = [h \in Handles |-> IF h <= numModules THEN 1 ELSE 0]
    /\ pc = "start"
    /\ modules_size = 0
    /\ module_count = 0
    /\ modules = << >>
    /\ idx = 0
    /\ module_path = 0
    /\ module_info = ZeroedInfo
    /\ handle_lock = NULL
    /\ vmem_info = ZeroedVmem
    /\ should_break = FALSE
    /\ os = [h \in Handles |-> NoOs]
    /\ pins = [h \in Handles |-> 0]
    /\ releases = [h \in Handles |-> 0]
    /\ called = << >>
    /\ brokeAt = 0
    /\ enumFailed = "none"
    /\ mem = << >>
    /\ call = "none"
    /\ ret = "none"
    /\ log = << >>

NextEach ==
    \/ EnumSize
    \/ EnumList
    \/ LoopEnd
    \/ GetModuleFileName
    \/ GetModuleInfo
    \/ LoadLibrary
    \/ VirtualQueryStep
    \/ CallbackReturn
    \/ CallbackPanic
    \/ FreeLibraryStep

SpecEach == InitEach /\ [][NextEach]_vars


\* ------------------------------------------------------------------------
\* The PE structures as the accessors read them (64-bit target layouts)
\* ------------------------------------------------------------------------

IMAGE_DOS_SIGNATURE == 23117

IMAGE_NT_SIGNATURE == 17744

IMAGE_DEBUG_TYPE_CODEVIEW == 2

IMAGE_DIRECTORY_ENTRY_DEBUG == 6

CV_SIGNATURE == 1396986706

\* IMAGE_DOS_HEADER.e_lfanew
OffLfanew == 60

\* IMAGE_NT_HEADERS.FileHeader.NumberOfSections
OffNumberOfSections == 6

\* IMAGE_NT_HEADERS.FileHeader.TimeDateStamp
OffTimeDateStamp == 8

\* IMAGE_NT_HEADERS.OptionalHeader.SizeOfImage
OffSizeOfImage == 80

\* IMAGE_NT_HEADERS.OptionalHeader.DataDirectory
OffDataDirectory == 136

\* size_of::<IMAGE_DATA_DIRECTORY>()
SizeOfDataDirectory == 8

\* size_of::<IMAGE_NT_HEADERS>()
SizeOfNtHeaders == 264

\* size_of::<IMAGE_SECTION_HEADER>()
SizeOfSectionHeader == 40

\* size of IMAGE_SECTION_HEADER.Name
SizeOfShortName == 8

\* IMAGE_DEBUG_DIRECTORY.Type
OffDebugType == 12

\* IMAGE_DEBUG_DIRECTORY.AddressOfRawData
OffAddressOfRawData == 20

\* CodeViewRecord70.pdb_signature
OffPdbSignature == 4

\* CodeViewRecord70.pdb_age
OffPdbAge == 20

\* CodeViewRecord70.pdb_filename
OffPdbFilename == 24

\* The address the module of the PE specifications is mapped at.
ModuleBase == BaseOf(1)

\* Little-endian reads of the module's memory at an offset from its base.
\* The fields the images set stay below 2^31, where the u32 and the i32
\* reading of a field (e_lfanew is an i32) agree.
ReadU8(a) == mem[a]

ReadU16(a) == mem[a] + 256 * mem[a + 1]

ReadU32(a) == mem[a] + 256 * mem[a + 1] + 65536 * mem[a + 2]
              + 16777216 * mem[a + 3]

\* A pointer base.offset(off) is null
IsNull(off) == ModuleBase + off = NULL

RECURSIVE CStrFromPtr(_)
\* CStr::from_ptr: the bytes from the pointer up to the first NUL, which is
\* searched for without any bound.
CStrFromPtr(a) ==
    IF ReadU8(a) = 0 THEN << >> ELSE <<ReadU8(a)>> \o CStrFromPtr(a + 1)

IsCont(b) == b >= 128 /\ b <= 191

RECURSIVE Utf8Valid(_)
\* CStr::to_str / str::from_utf8: whether the bytes are well-formed UTF-8.
Utf8Valid(s) ==
    IF s = << >> THEN TRUE
    ELSE LET b == s[1]
             n == Len(s)
             Conts(k) == n > k /\ \A i \in 2 .. k + 1 : IsCont(s[i])
             Rest(k) == SubSeq(s, k + 2, n)
         IN  IF b < 128 THEN Utf8Valid(Rest(0))
             ELSE IF b >= 194 /\ b <= 223
                  THEN Conts(1) /\ Utf8Valid(Rest(1))
             ELSE IF b = 224
                  THEN Conts(2) /\ s[2] >= 160 /\ Utf8Valid(Rest(2))
             ELSE IF b = 237
                  THEN Conts(2) /\ s[2] <= 159 /\ Utf8Valid(Rest(2))
             ELSE IF b >= 225 /\ b <= 239
                  THEN Conts(2) /\ Utf8Valid(Rest(2))
             ELSE IF b = 240
                  THEN Conts(3) /\ s[2] >= 144 /\ Utf8Valid(Rest(3))
             ELSE IF b >= 241 /\ b <= 243
                  THEN Conts(3) /\ Utf8Valid(Rest(3))
             ELSE IF b = 244
                  THEN Conts(3) /\ s[2] <= 143 /\ Utf8Valid(Rest(3))
             ELSE FALSE

\* Entries of an accessor's log: a field read, or the outcome of a
\* signature test.
Rd(layer, what, at) ==
    [op |-> "read", layer |-> layer, what |-> what, at |-> at, ok |-> TRUE]

Ck(layer, ok) ==
    [op |-> "check", layer |-> layer, what |-> "signature", at |-> 0, ok |-> ok]

None(l) == [some |-> FALSE, v |-> << >>, log |-> l]

Some(x, l) == [some |-> TRUE, v |-> x, log |-> l]

\* lines 148-155; v is the offset of the header from the base
dos_header ==
    LET ok == ReadU16(0) = IMAGE_DOS_SIGNATURE
        l  == <<Rd("dos", "e_magic", 0), Ck("dos", ok)>>
    IN  IF ok THEN Some(0, l) ELSE None(l)

\* lines 157-168; v is the offset of the headers from the base
nt_headers ==
    LET d == dos_header
    IN  IF ~d.some THEN None(d.log)
        ELSE LET at == ReadU32(d.v + OffLfanew)
                 ok == ReadU32(at) = IMAGE_NT_SIGNATURE
                 l  == d.log \o <<Rd("dos", "e_lfanew", d.v + OffLfanew),
                                  Rd("nt", "Signature", at), Ck("nt", ok)>>
             IN  IF ok THEN Some(at, l) ELSE None(l)

\* lines 243-249: map_or(0, ..) over nt_headers()
virtual_memory_bias ==
    LET n == nt_headers
    IN  IF ~n.some THEN Some(0, n.log)
        ELSE LET at == n.v + OffDataDirectory
                       + IMAGE_DIRECTORY_ENTRY_DEBUG * SizeOfDataDirectory
             IN  Some(ReadU32(at),
                      n.log \o <<Rd("nt", "DataDirectory[DEBUG].VirtualAddress", at)>>)

\* lines 178-185: the record at base.offset(AddressOfRawData); l is the log
\* so far
DebugInfo(di, l) ==
    IF IsNull(di) THEN None(l)
    ELSE IF ReadU32(di) = CV_SIGNATURE
         THEN Some(di, l \o <<Rd("cv", "signature", di), Ck("cv", TRUE)>>)
         ELSE None(l \o <<Rd("cv", "signature", di), Ck("cv", FALSE)>>)

\* lines 173-177: the directory entry at base.offset(bias)
DebugDictionary(dd, l) ==
    IF IsNull(dd) THEN None(l)
    ELSE IF ReadU32(dd + OffDebugType) # IMAGE_DEBUG_TYPE_CODEVIEW
         THEN None(l \o <<Rd("dbg", "Type", dd + OffDebugType)>>)
         ELSE DebugInfo(ReadU32(dd + OffAddressOfRawData),
                        l \o <<Rd("dbg", "Type", dd + OffDebugType),
                               Rd("dbg", "AddressOfRawData",
                                  dd + OffAddressOfRawData)>>)

\* lines 170-187; v is the offset of the record from the base
codeview_record70 ==
    DebugDictionary(virtual_memory_bias.v, virtual_memory_bias.log)

\* debug_name without the to_str() test.
debug_name_Lossy ==
    LET c == codeview_record70
    IN  IF ~c.some THEN None(c.log)
        ELSE Some(CStrFromPtr(c.v + OffPdbFilename),
                  c.log \o <<Rd("cv", "pdb_filename", c.v + OffPdbFilename)>>)

\* lines 199-210
debug_name ==
    LET c == codeview_record70
    IN  IF ~c.some THEN None(c.log)
        ELSE LET s == CStrFromPtr(c.v + OffPdbFilename)
                 l == c.log \o <<Rd("cv", "pdb_filename", c.v + OffPdbFilename)>>
             IN  IF Utf8Valid(s) THEN Some(s, l) ELSE None(l)

\* lines 212-219
id ==
    LET n == nt_headers
    IN  IF ~n.some THEN None(n.log)
        ELSE Some(<<ReadU32(n.v + OffTimeDateStamp), ReadU32(n.v + OffSizeOfImage)>>,
                  n.log \o <<Rd("nt", "TimeDateStamp", n.v + OffTimeDateStamp),
                             Rd("nt", "SizeOfImage", n.v + OffSizeOfImage)>>)

\* lines 221-226
debug_id ==
    LET c == codeview_record70
    IN  IF ~c.some THEN None(c.log)
        ELSE Some(<<[i \in 1 .. 16 |-> ReadU8(c.v + OffPdbSignature + i - 1)],
                    ReadU32(c.v + OffPdbAge)>>,
                  c.log \o <<Rd("cv", "pdb_signature", c.v + OffPdbSignature),
                             Rd("cv", "pdb_age", c.v + OffPdbAge)>>)

\* lines 228-241; v is the sequence of the section headers' offsets (the
\* slice), empty when nt_headers() is None
segments ==
    LET n == nt_headers
    IN  IF ~n.some THEN [some |-> FALSE, v |-> << >>, log |-> n.log]
        ELSE LET first == n.v + SizeOfNtHeaders
                 count == ReadU16(n.v + OffNumberOfSections)
             IN  Some([i \in 1 .. count |-> first + (i - 1) * SizeOfSectionHeader],
                      n.log \o <<Rd("nt", "NumberOfSections",
                                    n.v + OffNumberOfSections)>>)

\* lines 52-60: Segment::name of the section header at offset sec
SegmentName(sec) ==
    LET s == CStrFromPtr(sec)
    IN  IF Utf8Valid(s) THEN s ELSE << >>

\* ".text"
DotText == <<46, 116, 101, 120, 116>>

\* lines 62-64
SegmentIsCode(sec) == SegmentName(sec) = DotText


\* ------------------------------------------------------------------------
\* The accessors as operations on a module handle
\* ------------------------------------------------------------------------

Returned(r) ==
    /\ ret' = [some |-> r.some, v |-> r.v]
    /\ log' = r.log
    /\ UNCHANGED <<mem, eachVars>>

CallId ==
    /\ call' = "id"
    /\ Returned(id)

CallDebugId ==
    /\ call' = "debug_id"
    /\ Returned(debug_id)

CallDebugName ==
    /\ call' = "debug_name"
    /\ Returned(debug_name)

CallSegments ==
    /\ call' = "segments"
    /\ Returned(segments)

CallVirtualMemoryBias ==
    /\ call' = "virtual_memory_bias"
    /\ Returned(virtual_memory_bias)

\* for seg in shlib.segments() { seg.name() }
CallSegmentName ==
    \E i \in 1 .. Len(segments.v) :
        /\ call' = "name"
        /\ Returned(Some(SegmentName(segments.v[i]),
                         segments.log \o <<Rd("sec", "Name", segments.v[i])>>))

\* for seg in shlib.segments() { seg.is_code() }
CallSegmentIsCode ==
    \E i \in 1 .. Len(segments.v) :
        /\ call' = "is_code"
        /\ Returned(Some(<<SegmentIsCode(segments.v[i])>>,
                         segments.log \o <<Rd("sec", "Name", segments.v[i])>>))

\* ------------------------------------------------------------------------
\* The module images the accessors are run on
\* ------------------------------------------------------------------------

\* size_of::<IMAGE_DEBUG_DIRECTORY>()
SizeOfDebugDirectory == 28

\* The longest debug file name of an image, its NUL included.
MaxFilename == 4

\* The images place the NT headers right behind the DOS header, the section
\* headers behind them (as the loader does), then a debug directory entry
\* and a CodeView record.
NtOff == OffLfanew + 4
SectionsOff == NtOff + SizeOfNtHeaders
SectionOff(i) == SectionsOff + (i - 1) * SizeOfSectionHeader
DbgDirOff == SectionOff(MaxSections + 1)
CvOff == DbgDirOff + SizeOfDebugDirectory
MemSize == CvOff + OffPdbFilename + MaxFilename + 1

Field(at, w, v) == [at |-> at, w |-> w, v |-> v]

Bytes(at, s) == [i \in 1 .. Len(s) |-> Field(at + i - 1, 1, s[i])]

Pow256(k) == IF k = 0 THEN 1 ELSE IF k = 1 THEN 256
             ELSE IF k = 2 THEN 65536 ELSE 16777216

\* The memory that holds the given little-endian fields and zero elsewhere.
\* Every offset an image stores lies inside the image, and the image ends in
\* zero bytes, so every read and every scan for a NUL stays inside it.
Image(fields) ==
    [a \in 0 .. MemSize - 1 |->
        LET S == {i \in 1 .. Len(fields) :
                     a >= fields[i].at /\ a < fields[i].at + fields[i].w}
        IN  IF S = {} THEN 0
            ELSE LET f == fields[CHOOSE i \in S : TRUE]
                 IN  (f.v \div Pow256(a - f.at)) % 256]

\* Debug file names: "a", an invalid UTF-8 byte, and a two-byte character.
Filenames == {<<97, 0>>, <<255, 0>>, <<195, 169, 0>>}

NoCall ==
    /\ call = "none"
    /\ ret = [some |-> FALSE, v |-> << >>]
    /\ log = << >>

EachIdle ==
    /\ numModules = 1
    /\ refcount = [h \in Handles |-> IF h = 1 THEN 1 ELSE 0]
    /\ pc = "callback"
    /\ modules_size = SizeOfHMODULE
    /\ module_count = 1
    /\ modules = <<1>>
    /\ idx = 1
    /\ module_path = 1
    /\ module_info = [lpBaseOfDll |-> ModuleBase]
    /\ handle_lock = 1
    /\ vmem_info = [ret |-> SizeOfMBI, State |-> MEM_COMMIT]
    /\ should_break = FALSE
    /\ os = [h \in Handles |-> NoOs]
    /\ pins = [h \in Handles |-> 0]
    /\ releases = [h \in Handles |-> 0]
    /\ called = <<1>>
    /\ brokeAt = 0
    /\ enumFailed = "none"

\* Any content of the header, debug directory and debug record fields the
\* accessors read, valid or not.
InitPE ==
    /\ EachIdle
    /\ NoCall
    /\ \E magic \in {IMAGE_DOS_SIGNATURE, 0},
          ntsig \in {IMAGE_NT_SIGNATURE, 0},
          nsec  \in 0 .. MaxSections,
          dbgva \in {0, DbgDirOff},
          type0 \in {0, IMAGE_DEBUG_TYPE_CODEVIEW},
          aord0 \in {0, CvOff},
          type1 \in {IMAGE_DEBUG_TYPE_CODEVIEW, 1},
          cvsig \in {CV_SIGNATURE, 0},
          fname \in Filenames :
        mem = Image(<<Field(0, 2, magic),
                      Field(OffDebugType, 4, type0),
                      Field(OffAddressOfRawData, 4, aord0),
                      Field(OffLfanew, 4, NtOff),
                      Field(NtOff, 4, ntsig),
                      Field(NtOff + OffNumberOfSections, 2, nsec),
                      Field(NtOff + OffTimeDateStamp, 4, 7),
                      Field(NtOff + OffSizeOfImage, 4, MemSize),
                      Field(NtOff + OffDataDirectory
                            + IMAGE_DIRECTORY_ENTRY_DEBUG * SizeOfDataDirectory,
                            4, dbgva),
                      Field(DbgDirOff + OffDebugType, 4, type1),
                      Field(DbgDirOff + OffAddressOfRawData, 4, CvOff),
                      Field(CvOff, 4, cvsig),
                      Field(CvOff + OffPdbSignature, 4, 3),
                      Field(CvOff + OffPdbAge, 4, 1)>>
                    \o Bytes(SectionOff(1), DotText)
                    \o Bytes(CvOff + OffPdbFilename, fname))

NextPE ==
    \/ CallId
    \/ CallDebugId
    \/ CallDebugName
    \/ CallSegments
    \/ CallVirtualMemoryBias

SpecPE == InitPE /\ [][NextPE]_vars

\* ".textbss", a section name that fills the field
DotTextBss == <<46, 116, 101, 120, 116, 98, 115, 115>>

\* An image with valid headers and MaxSections sections, the first one with
\* the given name and the last one named ".text".  tail is the first byte of
\* the field behind the first name (Misc.VirtualSize).
ValidImage(name, tail) ==
    Image(<<Field(0, 2, IMAGE_DOS_SIGNATURE),
            Field(OffLfanew, 4, NtOff),
            Field(NtOff, 4, IMAGE_NT_SIGNATURE),
            Field(NtOff + OffNumberOfSections, 2, MaxSections),
            Field(SectionOff(1) + SizeOfShortName, 1, tail)>>
          \o Bytes(SectionOff(1), name)
          \o Bytes(SectionOff(MaxSections), DotText))

\* Section names: the names of a linker, every 8-byte field over a NUL and a
\* letter, and the fields that start with non-ASCII bytes.
InitName ==
    /\ EachIdle
    /\ NoCall
    /\ \/ \E name \in {DotText, DotTextBss}, tail \in {0, 65} :
             mem = ValidImage(name, tail)
       \/ \E name \in [1 .. SizeOfShortName -> {0, 116}], tail \in {0, 65} :
             mem = ValidImage(name, tail)
       \/ \E head \in [1 .. 3 -> {0, 116, 169, 195}] :
             mem = ValidImage(head, 0)

NextName ==
    \/ CallSegments
    \/ CallSegmentName
    \/ CallSegmentIsCode

SpecName == InitName /\ [][NextName]_vars


\* ------------------------------------------------------------------------
\* Properties of SharedLibrary::each (of the behaviours of SpecEach)
\* ------------------------------------------------------------------------

\* The reference count each() found the module with.
InitialRefcount(h) == IF h <= numModules THEN 1 ELSE 0

\* Pins of module h not released yet.
Held(h) == pins[h] - releases[h]

\* A module the callback is owed for: its path and its module information
\* were retrieved and its memory is committed.
Eligible(h) ==
    /\ os[h].path = "ok"
    /\ os[h].info = "ok"
    /\ os[h].vq = "commit"

\* C1 (as claimed): with a DOS header whose magic is not IMAGE_DOS_SIGNATURE,
\* id() and debug_id() return None and segments() is empty, whatever the rest
\* of the module's memory holds.
C1_BadMagicAllAbsent ==
    (ReadU16(0) # IMAGE_DOS_SIGNATURE /\ call \in {"id", "debug_id", "segments"})
        => (~ret.some /\ ret.v = << >>)

\* C2: a pin is held on at most one module, the one under inspection, and at
\* most once; whenever each() turns to the next candidate or has returned,
\* every pin taken has been released exactly once and every reference count
\* is back at its initial value.
C2_PinsReleased ==
    /\ \A h \in Handles :
         /\ Held(h) \in {0, 1}
         /\ Held(h) = 1 => (h = handle_lock /\ pc \in {"query", "callback", "free", "panicked"})
    /\ pc \in {"loop", "returned"} =>
         \A h \in Handles : releases[h] = pins[h] /\ refcount[h] = InitialRefcount(h)

\* C2 witness: each() has returned after a Break, having pinned and released
\* both the module it broke on and one it skipped as not committed or not
\* queryable.
C2_Witness ==
    /\ pc = "returned"
    /\ brokeAt > 0
    /\ \E h \in Handles : os[h].vq = "commit" /\ pins[h] = 1 /\ releases[h] = 1
    /\ \E h \in Handles :
         os[h].vq \in {"failed", "nocommit"} /\ pins[h] = 1 /\ releases[h] = 1

\* C3: when each() has returned from a retrieved module list, the callback
\* was invoked once per eligible module if no invocation returned Break, and
\* exactly k times if the k-th invocation returned Break.
C3_CallbackCount ==
    (pc = "returned" /\ enumFailed = "none") =>
        IF brokeAt = 0
        THEN /\ Len(called) = Cardinality({h \in 1 .. numModules : Eligible(h)})
             /\ \A h \in 1 .. numModules :
                  Eligible(h) <=> (\E i \in 1 .. Len(called) : called[i] = h)
        ELSE Len(called) = brokeAt

\* C3 witness: the second invocation returned Break with a candidate still
\* unvisited, and each() returned.
C3_Witness ==
    /\ pc = "returned"
    /\ brokeAt = 2
    /\ Len(called) = 2
    /\ idx < Len(modules)

\* C4 (as claimed): a candidate whose GetModuleInformation call failed is
\* skipped: no pin is requested for it, its memory is not queried and the
\* callback is not invoked for it.
C4_InfoFailureSkips ==
    \A h \in Handles :
        os[h].info = "failed" =>
            /\ os[h].pin = "none"
            /\ pins[h] = 0
            /\ os[h].vq = "none"
            /\ \A i \in 1 .. Len(called) : called[i] # h

\* The candidate each() is about to leave without having invoked the callback.
SkippedAtFree ==
    /\ pc = "free"
    /\ ~(vmem_info.ret = SizeOfMBI /\ vmem_info.State = MEM_COMMIT)

\* C5: the callback runs only for a candidate whose VirtualQuery at its own
\* base address wrote the whole structure and reported MEM_COMMIT; a candidate
\* whose query failed or whose region is not committed is left with the
\* callback not invoked, the pin released, and the loop at the next candidate.
C5_OnlyCommitted ==
    /\ [](/\ pc = "callback" =>
               /\ vmem_info.ret = SizeOfMBI
               /\ vmem_info.State = MEM_COMMIT
               /\ module_info.lpBaseOfDll = BaseOf(cur)
          /\ \A i \in 1 .. Len(called) : os[called[i]].vq = "commit")
    /\ [][SkippedAtFree =>
              /\ called' = called
              /\ pc' = "loop"
              /\ idx' = idx + 1
              /\ \A h \in Handles : releases'[h] = pins'[h]]_vars

\* C5 witness: the loop stands at a candidate after one it pinned, found not
\* committed and released.
C5_Witness ==
    /\ pc = "loop"
    /\ idx > 1
    /\ idx <= Len(modules)
    /\ os[modules[idx - 1]].vq = "nocommit"
    /\ os[modules[idx - 1]].info = "ok"
    /\ pins[modules[idx - 1]] = 1
    /\ releases[modules[idx - 1]] = 1
    /\ called = << >>

\* C6: once either EnumProcessModules call has failed, each() has returned
\* with no callback invoked and no module pinned.
C6_EnumFailureReturns ==
    enumFailed # "none" =>
        /\ pc = "returned"
        /\ called = << >>
        /\ \A h \in Handles : pins[h] = 0 /\ os[h] = NoOs

\* C6 witness: the retrieval (the second call) failed.
C6_Witness ==
    /\ enumFailed = "list"
    /\ pc = "returned"
    /\ numModules > 1

\* C10 (as claimed): while the callback runs for a module, each() holds a pin
\* on it that LoadLibraryExW granted, so its reference count is above the
\* initial one.
C10_PinHeldInCallback ==
    pc = "callback" =>
        /\ handle_lock = cur
        /\ refcount[cur] > InitialRefcount(cur)

\* ------------------------------------------------------------------------
\* Properties of the accessors (of the behaviours of SpecPE and SpecName)
\* ------------------------------------------------------------------------

\* C7 (as claimed): debug_name() is None exactly when debug_id() is None.
C7_NameIffId ==
    call = "debug_name" => (ret.some <=> debug_id.some)

\* C7 (amended): debug_name() is Some exactly when debug_id() is Some and the
\* file name bytes up to the first NUL are valid UTF-8, and it is then those
\* bytes.
C7_NameIffIdAndUtf8 ==
    call = "debug_name" =>
        /\ ret.some <=>
             (debug_id.some
              /\ Utf8Valid(CStrFromPtr(codeview_record70.v + OffPdbFilename)))
        /\ ret.some => ret.v = CStrFromPtr(codeview_record70.v + OffPdbFilename)

\* C7 witness: debug_name() returned None for a module whose debug_id() is
\* Some.
C7_Witness ==
    /\ call = "debug_name"
    /\ ~ret.some
    /\ debug_id.some

\* The bytes of s before its first NUL (all of s without one).
RECURSIVE TruncAtNul(_)
TruncAtNul(s) ==
    IF s = << >> \/ s[1] = 0 THEN << >>
    ELSE <<s[1]>> \o TruncAtNul(Tail(s))

\* The 8-byte Name field of the section header at offset sec.
NameField(sec) == [i \in 1 .. SizeOfShortName |-> mem[sec + i - 1]]

\* C8 (as claimed): Segment::name() is the Name field cut at its first NUL,
\* all 8 bytes when it holds none; it is never longer than the field.
C8_NameIsTruncatedField ==
    call = "name" =>
        /\ ret.v = TruncAtNul(NameField(log[Len(log)].at))
        /\ Len(ret.v) <= SizeOfShortName

\* C9 (as claimed): within one accessor call, nothing outside the DOS header
\* is read before the DOS magic test passed, and no section header, debug
\* directory entry or debug record field is read before the NT signature
\* test passed.
C9_LayeredValidation ==
    \A i \in 1 .. Len(log) :
        log[i].op = "read" =>
            /\ log[i].layer # "dos" =>
                 \E j \in 1 .. i - 1 : log[j] = Ck("dos", TRUE)
            /\ log[i].layer \in {"sec", "dbg", "cv"} =>
                 \E j \in 1 .. i - 1 : log[j] = Ck("nt", TRUE)

=============================================================================
